---- MODULE Spec2Model ----
(***************************************************************************)
(* Model of the item API of src/server.py: the items table reached through *)
(* one shared connection, and the route handlers api_list_items,           *)
(* api_new_item, api_get_item, api_del_item, api_update_post and index,    *)
(* each run inside handler() of handle_json_error.  A handler is cut at    *)
(* the awaits that reach the connection, so that requests interleave at    *)
(* the granularity of single statements and commits.  Startup, that is     *)
(* get_db_path, try_make_db and the connection opened by init_db, is       *)
(* modelled by a specification of its own.                                 *)
(***************************************************************************)
EXTENDS Integers, Sequences, FiniteSets, Bags, TLC

(***************************************************************************)
(* Bounds of the model.                                                    *)
(***************************************************************************)
MaxRows == 2        \* rows the table may hold before POST is no longer issued
MaxCreates == 2     \* POST requests answered ok before POST is no longer issued
MaxSerial == 1      \* handlers suspended at an await at the same time, under Spec
MaxInflight == 2    \* handlers suspended at an await at the same time, under ConcSpec
MaxDepth == 2       \* directories between the root and the deepest working directory

(***************************************************************************)
(* JSON / SQLite values.  A text is a sequence of one-character strings,   *)
(* an integer is a TLA+ integer, "list" stands for a JSON array or object, *)
(* which sqlite3 cannot bind.                                              *)
(***************************************************************************)
Digits == <<"0", "1", "2", "3", "4", "5", "6", "7", "8", "9">>
Radix == Len(Digits)

JText(s) == [typ |-> "text", val |-> s]
JInt(n) == [typ |-> "int", val |-> n]
JNull == [typ |-> "null", val |-> 0]
JList == [typ |-> "list", val |-> 0]

IsDigit(c) == \E d \in 1..Radix : Digits[d] = c
DigitVal(c) == (CHOOSE d \in 1..Radix : Digits[d] = c) - 1

\* a text that SQLite reads as an integer literal
LooksInteger(s) == Len(s) > 0 /\ \A i \in 1..Len(s) : IsDigit(s[i])

RECURSIVE ToInt(_)
ToInt(s) ==
    IF Len(s) = 0 THEN 0
    ELSE Radix * ToInt(SubSeq(s, 1, Len(s) - 1)) + DigitVal(s[Len(s)])

\* decimal rendering of a non-negative integer
RECURSIVE Str(_)
Str(n) ==
    IF n < Radix THEN <<Digits[n + 1]>>
    ELSE Append(Str(n \div Radix), Digits[(n % Radix) + 1])

\* sqlite3 binds None, int and str; any other Python object is an error
Bindable(v) == v.typ \in {"text", "int", "null"}

\* column affinity applied when a value is stored (CREATE TABLE items)
TextAffinity(v) == IF v.typ = "int" THEN JText(Str(v.val)) ELSE v
IntegerAffinity(v) ==
    IF v.typ = "text" /\ LooksInteger(v.val) THEN JInt(ToInt(v.val)) ELSE v

TextColumns == {"title", "description", "owner", "editor"}
StoreValue(col, v) ==
    IF col \in TextColumns THEN TextAffinity(v) ELSE IntegerAffinity(v)

Columns == {"owner", "editor", "title", "description", "price", "quantity"}

(***************************************************************************)
(* The table: a function from the ids in use to rows.                      *)
(***************************************************************************)
Ids(tbl) == DOMAIN tbl

Max(S) == CHOOSE m \in S : \A x \in S : x <= m

\* the largest rowid in use handed out again
NextRowid_Largest(tbl) == IF Ids(tbl) = {} THEN 1 ELSE Max(Ids(tbl))

\* INTEGER PRIMARY KEY without AUTOINCREMENT: one more than the largest rowid
NextRowid(tbl) == IF Ids(tbl) = {} THEN 1 ELSE Max(Ids(tbl)) + 1

\* the rowids that "id = ?" matches for a bound parameter p
MatchIds(tbl, p) ==
    LET q == IntegerAffinity(p)
    IN  IF q.typ = "int" THEN {i \in Ids(tbl) : i = q.val} ELSE {}

InsertRow(tbl, id, row) ==
    [i \in Ids(tbl) \cup {id} |-> IF i = id THEN row ELSE tbl[i]]

\* DELETE FROM items without its WHERE clause
DeleteRows_All(tbl, S) == [i \in {} |-> tbl[i]]

DeleteRows(tbl, S) == [i \in Ids(tbl) \ S |-> tbl[i]]

\* UPDATE items SET <fields> WHERE id in S
UpdateRows(tbl, S, fields) ==
    [i \in Ids(tbl) |->
        IF i \in S
        THEN [c \in Columns |->
                IF c \in DOMAIN fields THEN StoreValue(c, fields[c]) ELSE tbl[i][c]]
        ELSE tbl[i]]

(***************************************************************************)
(* Request bodies.  A body is a JSON object (obj, a function from the keys *)
(* it carries to values), text that request.json() cannot parse, or absent.*)
(***************************************************************************)
Empty == [x \in {} |-> JNull]

Object(f) == [kind |-> "object", obj |-> f]
Malformed == [kind |-> "garbage", obj |-> Empty]
NoBody == [kind |-> "none", obj |-> Empty]

With(f, k, v) == [x \in DOMAIN f \cup {k} |-> IF x = k THEN v ELSE f[x]]
Without(f, k) == [x \in DOMAIN f \ {k} |-> f[x]]

PostKeys == {"title", "owner", "description", "price", "quantity"}
PatchKeys == {"title", "description", "editor"}

BasePost ==
    [k \in PostKeys |->
        CASE k = "title" -> JText(<<"a">>)
          [] k = "owner" -> JText(<<"o">>)
          [] k = "description" -> JText(<<"d">>)
          [] k = "price" -> JInt(5)
          [] k = "quantity" -> JInt(1)]

\* POST bodies: the well-typed one, one with a number where the column is TEXT,
\* one with a null, one with a value sqlite3 cannot bind, one for each missing
\* key, and one that is not JSON
PostBodies ==
    {Malformed, Object(BasePost)}
        \cup {Object(With(BasePost, "title", v)) : v \in {JInt(7), JNull, JList}}
        \cup {Object(Without(BasePost, k)) : k \in PostKeys}

\* PATCH bodies: no key, only keys the handler does not read, one key with a
\* number, keys it reads beside keys it does not, an unbindable value, and one
\* that is not JSON
Ignored ==
    [k \in {"owner", "price", "quantity", "id"} |->
        IF k = "owner" THEN JText(<<"b">>) ELSE JInt(7)]

PatchBodies ==
    {Malformed, Object(Empty), Object(Ignored)}
        \cup {Object(With(Empty, "title", v)) : v \in {JInt(7), JList}}
        \cup {Object(With(With(Ignored, "description", JText(<<"b">>)), "editor", JText(<<"b">>)))}

\* the first id that str() renders with two characters, and the one before it
TwoDigitId == Radix
SeedId == Radix - 1
PathIds == (1..MaxCreates) \cup {SeedId, TwoDigitId}
Paths == {Str(n) : n \in PathIds}
NoPath == <<>>

(***************************************************************************)
(* Directories and store files.  A directory is its depth below the root,  *)
(* so the ancestors of d are d - 1, ..., 0; a store file is absent, a      *)
(* database without an items table (an empty file is one), or a database   *)
(* with the items table and its rows.                                      *)
(***************************************************************************)
Dirs == 0..MaxDepth
Root == 0
NoDir == -1

\* Path.parent: the root is its own parent
Parent(d) == IF d = Root THEN Root ELSE d - 1

Absent == [kind |-> "absent", rows |-> Empty]
NoTable == [kind |-> "notable", rows |-> Empty]
Table(rows) == [kind |-> "table", rows |-> rows]

\* Path.exists()
Exists(f) == f.kind # "absent"

(***************************************************************************)
(* State.                                                                  *)
(***************************************************************************)
VARIABLES
    items,        \* the items table as the shared connection sees it
    uncommitted,  \* slots whose statement the connection has not committed yet
    reqs,         \* slot -> the handler suspended there, or Idle
    resp,         \* the request answered by the step just taken and its response, or NoResp
    fresh,        \* id -> the POST that inserted it, until an UPDATE or DELETE reaches the row
    okCreated,    \* bag of the ids that POST /api has returned in an ok envelope
    okDeleted,    \* bag of the ids that DELETE /api/{id} has returned in an ok envelope
    initial,      \* the ids the table held when the service started
    written,      \* slots of the PATCH handlers whose UPDATE changed a row
    cwd,          \* the working directory of the process
    git,          \* the directories that contain .git
    files,        \* directory -> the db.sqlite3 in it
    here,         \* the directory get_db_path is looking at
    sqlite_db,    \* the directory of the path get_db_path returned, or NoDir
    phase         \* where startup stands, "serving" once requests are served

service == <<items, uncommitted, reqs, resp, fresh, okCreated, okDeleted, initial, written>>
startup == <<cwd, git, files, here, sqlite_db, phase>>
vars == <<service, startup>>

Slots == DOMAIN reqs
Idle == [op |-> "idle"]
NoResp == [op |-> "none"]

Suspended(op, pc, path, body, item_id) ==
    [op |-> op, pc |-> pc, path |-> path, body |-> body, item_id |-> item_id]

FreeSlots == {s \in Slots : reqs[s] = Idle}
FreeSlot == CHOOSE s \in FreeSlots : \A t \in FreeSlots : s <= t

NoData == <<>>

\* web.json_response({"status": "ok", ...})
OkResponse(op, path, body, id, data) ==
    [op |-> op, path |-> path, body |-> body, code |-> 200, status |-> "ok",
     id |-> id, data |-> data, reason |-> FALSE]

\* the exception left to the server: a bare 500
FailedResponse_Unhandled(op, path, body) ==
    [op |-> op, path |-> path, body |-> body, code |-> 500, status |-> "error",
     id |-> JNull, data |-> NoData, reason |-> FALSE]

\* handler() of handle_json_error: an exception becomes
\* json_response({"status": "failed", "reason": str(ex)}, status=400)
FailedResponse(op, path, body) ==
    [op |-> op, path |-> path, body |-> body, code |-> 400, status |-> "failed",
     id |-> JNull, data |-> NoData, reason |-> TRUE]

\* the rowcount == 0 branch of api_del_item
NotFoundResponse(op, path, body) ==
    [op |-> op, path |-> path, body |-> body, code |-> 404, status |-> "fail",
     id |-> JNull, data |-> NoData, reason |-> TRUE]

\* web.Response(text="Placeholder Text")
TextResponse(op, path, body) ==
    [op |-> op, path |-> path, body |-> body, code |-> 200, status |-> "text",
     id |-> JNull, data |-> NoData, reason |-> FALSE]

(***************************************************************************)
(* POST /api: what the handler reads from the body and what INSERT stores  *)
(***************************************************************************)
\* post.get("title"), post.get("owner"), ...: None when a key is absent
PostFields_Get(obj) ==
    [raised |-> FALSE,
     val |-> [k \in PostKeys |-> IF k \in DOMAIN obj THEN obj[k] ELSE JNull]]

\* post["title"], post["owner"], ...: a KeyError when a key is absent
PostFields(obj) ==
    IF PostKeys \subseteq DOMAIN obj
    THEN [raised |-> FALSE, val |-> [k \in PostKeys |-> obj[k]]]
    ELSE [raised |-> TRUE, val |-> Empty]

\* the values api_new_item binds and echoes: editor is the submitted owner
PostValues(val) == [c \in Columns |-> IF c = "editor" THEN val["owner"] ELSE val[c]]

\* INSERT with title and description bound in each other's place
InsertedRow_Swapped(val) ==
    [c \in Columns |->
        StoreValue(c, PostValues(val)[CASE c = "title" -> "description"
                                        [] c = "description" -> "title"
                                        [] OTHER -> c])]

\* the row INSERT stores for those values
InsertedRow(val) == [c \in Columns |-> StoreValue(c, PostValues(val)[c])]

BaseRow == InsertedRow(BasePost)

\* startup is over: run in the root of the checkout, it has left the store
\* file there with the items table that the connection reads
Started ==
    /\ cwd = Root
    /\ git = {Root}
    /\ files = [d \in Dirs |-> IF d = Root THEN Table(items) ELSE Absent]
    /\ here = Root
    /\ sqlite_db = Root
    /\ phase = "serving"

Init ==
    /\ items \in {Empty, [i \in {SeedId} |-> BaseRow]}
    /\ uncommitted = {}
    /\ reqs = [s \in 1..MaxSerial |-> Idle]
    /\ resp = NoResp
    /\ fresh = Empty
    /\ okCreated = EmptyBag
    /\ okDeleted = EmptyBag
    /\ initial = Ids(items)
    /\ written = {}
    /\ Started

(***************************************************************************)
(* GET / and GET /api                                                      *)
(***************************************************************************)
Index ==
    /\ resp' = TextResponse("INDEX", NoPath, NoBody)
    /\ UNCHANGED <<items, uncommitted, reqs, fresh, okCreated, okDeleted, initial, written, startup>>

\* the rows of SELECT id, owner, ... FROM items, each with its id
ListRows(tbl) == {[id |-> JInt(i), row |-> tbl[i]] : i \in Ids(tbl)}

ListItems ==
    /\ resp' = OkResponse("LIST", NoPath, NoBody, JNull, ListRows(items))
    /\ UNCHANGED <<items, uncommitted, reqs, fresh, okCreated, okDeleted, initial, written, startup>>

(***************************************************************************)
(* fetch_item and GET /api/{item}                                          *)
(***************************************************************************)
\* fetch_item(db, item_id): row is None raises RuntimeError
FetchFound(tbl, item_id) == MatchIds(tbl, JText(item_id)) # {}
FetchRow(tbl, item_id) == tbl[CHOOSE i \in MatchIds(tbl, JText(item_id)) : TRUE]

\* fetch_item's failure answered as the not-found branch of DELETE is
FetchResponse_404(op, tbl, path, body) ==
    IF FetchFound(tbl, path)
    THEN OkResponse(op, path, body, JText(path), FetchRow(tbl, path))
    ELSE NotFoundResponse(op, path, body)

\* the envelope built from fetch_item's result; "id" is the item_id of the path
FetchResponse(op, tbl, path, body) ==
    IF FetchFound(tbl, path)
    THEN OkResponse(op, path, body, JText(path), FetchRow(tbl, path))
    ELSE FailedResponse(op, path, body)

\* a read that takes the row it returns out of the table
GetItem_Consuming(path) ==
    /\ resp' = FetchResponse("GET", items, path, NoBody)
    /\ items' = DeleteRows(items, MatchIds(items, JText(path)))
    /\ UNCHANGED <<uncommitted, reqs, fresh, okCreated, okDeleted, initial, written, startup>>

GetItem(path) ==
    /\ resp' = FetchResponse("GET", items, path, NoBody)
    /\ UNCHANGED <<items, uncommitted, reqs, fresh, okCreated, okDeleted, initial, written, startup>>

(***************************************************************************)
(* POST /api                                                               *)
(***************************************************************************)
NewItem(body) ==
    /\ BagCardinality(okCreated) < MaxCreates
    /\ Cardinality(Ids(items)) < MaxRows
    /\ IF body.kind # "object"
       THEN /\ resp' = FailedResponse("POST", NoPath, body)
            /\ UNCHANGED <<items, uncommitted, reqs, fresh>>
       ELSE IF PostFields(body.obj).raised
       THEN /\ resp' = FailedResponse("POST", NoPath, body)
            /\ UNCHANGED <<items, uncommitted, reqs, fresh>>
       ELSE IF \E k \in PostKeys : ~Bindable(PostFields(body.obj).val[k])
       THEN /\ resp' = FailedResponse("POST", NoPath, body)
            /\ UNCHANGED <<items, uncommitted, reqs, fresh>>
       ELSE /\ FreeSlots # {}
            /\ LET item_id == NextRowid(items)
                   val == PostFields(body.obj).val
               IN  /\ items' = InsertRow(items, item_id, InsertedRow(val))
                   /\ reqs' = [reqs EXCEPT ![FreeSlot] =
                                 Suspended("POST", "commit", NoPath, body, item_id)]
                   /\ fresh' = With(fresh, item_id,
                                    [val |-> val, by |-> FreeSlot, returned |-> FALSE])
            /\ uncommitted' = uncommitted \cup {FreeSlot}
            /\ resp' = NoResp
    /\ UNCHANGED <<okCreated, okDeleted, initial, written, startup>>

\* await db.commit(), then the ok envelope echoing the submitted values
NewItemCommit(s) ==
    /\ reqs[s] # Idle
    /\ reqs[s].op = "POST"
    /\ uncommitted' = {}
    /\ resp' = OkResponse("POST", NoPath, reqs[s].body, JInt(reqs[s].item_id),
                          PostValues(PostFields(reqs[s].body.obj).val))
    /\ okCreated' = okCreated (+) SetToBag({reqs[s].item_id})
    /\ fresh' = [i \in DOMAIN fresh |->
                    IF i = reqs[s].item_id /\ fresh[i].by = s
                    THEN [fresh[i] EXCEPT !.returned = TRUE] ELSE fresh[i]]
    /\ reqs' = [reqs EXCEPT ![s] = Idle]
    /\ UNCHANGED <<items, okDeleted, initial, written, startup>>

(***************************************************************************)
(* DELETE /api/{item}                                                      *)
(***************************************************************************)
\* db.execute(sql, item_id): the str itself is the parameter sequence, so
\* each of its characters is one parameter
DeleteParameters(item_id) == [i \in 1..Len(item_id) |-> JText(<<item_id[i]>>)]

DelItem(path) ==
    /\ IF Len(DeleteParameters(path)) # 1
       THEN /\ resp' = FailedResponse("DELETE", path, NoBody)
            /\ UNCHANGED <<items, uncommitted, reqs, fresh>>
       ELSE IF MatchIds(items, DeleteParameters(path)[1]) = {}
       THEN /\ resp' = NotFoundResponse("DELETE", path, NoBody)
            /\ UNCHANGED <<items, uncommitted, reqs, fresh>>
       ELSE /\ FreeSlots # {}
            /\ LET hit == MatchIds(items, DeleteParameters(path)[1])
               IN  /\ items' = DeleteRows(items, hit)
                   /\ fresh' = [i \in DOMAIN fresh \ hit |-> fresh[i]]
            /\ reqs' = [reqs EXCEPT ![FreeSlot] =
                          Suspended("DELETE", "commit", path, NoBody, 0)]
            /\ uncommitted' = uncommitted \cup {FreeSlot}
            /\ resp' = NoResp
    /\ UNCHANGED <<okCreated, okDeleted, initial, written, startup>>

\* await db.commit(), then {"status": "ok", "id": item_id}
DelItemCommit(s) ==
    /\ reqs[s] # Idle
    /\ reqs[s].op = "DELETE"
    /\ uncommitted' = {}
    /\ resp' = OkResponse("DELETE", reqs[s].path, NoBody, JText(reqs[s].path), NoData)
    /\ okDeleted' = okDeleted (+) SetToBag({ToInt(reqs[s].path)})
    /\ reqs' = [reqs EXCEPT ![s] = Idle]
    /\ UNCHANGED <<items, fresh, okCreated, initial, written, startup>>

(***************************************************************************)
(* PATCH /api/{item}                                                       *)
(***************************************************************************)
\* fields with an "owner" branch beside the three of the handler
UpdateFields_Owner(obj) == [k \in DOMAIN obj \cap (PatchKeys \cup {"owner"}) |-> obj[k]]

\* fields without the "description" branch
UpdateFields_NoDescription(obj) == [k \in DOMAIN obj \cap {"title", "editor"} |-> obj[k]]

\* fields taken to be the whole payload
UpdateFields_WholeBody(obj) == [k \in DOMAIN obj \cap Columns |-> obj[k]]

\* fields: the keys among title, description, editor that the payload carries
UpdateFields(obj) == [k \in DOMAIN obj \cap PatchKeys |-> obj[k]]

UpdatePost(path, body) ==
    /\ IF body.kind # "object"
       THEN /\ resp' = FailedResponse("PATCH", path, body)
            /\ UNCHANGED <<items, uncommitted, reqs, fresh, written>>
       ELSE IF DOMAIN UpdateFields(body.obj) = {}
       THEN /\ resp' = FetchResponse("PATCH", items, path, body)
            /\ UNCHANGED <<items, uncommitted, reqs, fresh, written>>
       ELSE IF \E k \in DOMAIN UpdateFields(body.obj) : ~Bindable(UpdateFields(body.obj)[k])
       THEN /\ resp' = FailedResponse("PATCH", path, body)
            /\ UNCHANGED <<items, uncommitted, reqs, fresh, written>>
       ELSE /\ FreeSlots # {}
            /\ LET hit == MatchIds(items, JText(path))
               IN  /\ items' = UpdateRows(items, hit, UpdateFields(body.obj))
                   /\ fresh' = [i \in DOMAIN fresh \ hit |-> fresh[i]]
                   /\ written' = IF hit # {} THEN written \cup {FreeSlot} ELSE written
            /\ reqs' = [reqs EXCEPT ![FreeSlot] =
                          Suspended("PATCH", "commit", path, body, 0)]
            /\ uncommitted' = uncommitted \cup {FreeSlot}
            /\ resp' = NoResp
    /\ UNCHANGED <<okCreated, okDeleted, initial, startup>>

\* the handler going on to its read-back without await db.commit()
UpdateCommit_Skipped(s) ==
    /\ reqs[s] # Idle
    /\ reqs[s].op = "PATCH"
    /\ reqs[s].pc = "commit"
    /\ reqs' = [reqs EXCEPT ![s].pc = "fetch"]
    /\ resp' = NoResp
    /\ UNCHANGED <<items, uncommitted, fresh, okCreated, okDeleted, initial, written, startup>>

\* await db.commit()
UpdateCommit(s) ==
    /\ reqs[s] # Idle
    /\ reqs[s].op = "PATCH"
    /\ reqs[s].pc = "commit"
    /\ uncommitted' = {}
    /\ reqs' = [reqs EXCEPT ![s].pc = "fetch"]
    /\ resp' = NoResp
    /\ UNCHANGED <<items, fresh, okCreated, okDeleted, initial, written, startup>>

\* new_item = await fetch_item(db, item_id), then the ok envelope
UpdateFetch(s) ==
    /\ reqs[s] # Idle
    /\ reqs[s].op = "PATCH"
    /\ reqs[s].pc = "fetch"
    /\ resp' = FetchResponse("PATCH", items, reqs[s].path, reqs[s].body)
    /\ reqs' = [reqs EXCEPT ![s] = Idle]
    /\ written' = written \ {s}
    /\ UNCHANGED <<items, uncommitted, fresh, okCreated, okDeleted, initial, startup>>

(***************************************************************************)
(* The service, one handler suspended at a time: the table starts empty or *)
(* with one row left by an earlier run, and the bodies are of every kind.  *)
(***************************************************************************)
Next ==
    \/ Index
    \/ ListItems
    \/ \E path \in Paths : GetItem(path)
    \/ \E body \in PostBodies : NewItem(body)
    \/ \E s \in Slots : NewItemCommit(s)
    \/ \E path \in Paths : DelItem(path)
    \/ \E s \in Slots : DelItemCommit(s)
    \/ \E path \in Paths, body \in PatchBodies : UpdatePost(path, body)
    \/ \E s \in Slots : UpdateCommit(s)
    \/ \E s \in Slots : UpdateFetch(s)

Spec == Init /\ [][Next]_vars

(***************************************************************************)
(* The service with several handlers suspended at once: the table starts   *)
(* empty and the bodies are well typed.                                    *)
(***************************************************************************)
ConcPaths == {Str(n) : n \in 1..MaxCreates}
ConcPostBodies == {Object(BasePost)}
ConcPatchBodies ==
    {Object(With(Empty, "editor", v)) : v \in {JText(<<"b">>), JText(<<"c">>)}}

ConcInit ==
    /\ items = Empty
    /\ uncommitted = {}
    /\ reqs = [s \in 1..MaxInflight |-> Idle]
    /\ resp = NoResp
    /\ fresh = Empty
    /\ okCreated = EmptyBag
    /\ okDeleted = EmptyBag
    /\ initial = {}
    /\ written = {}
    /\ Started

ConcNext ==
    \/ Index
    \/ ListItems
    \/ \E path \in ConcPaths : GetItem(path)
    \/ \E body \in ConcPostBodies : NewItem(body)
    \/ \E s \in Slots : NewItemCommit(s)
    \/ \E path \in ConcPaths : DelItem(path)
    \/ \E s \in Slots : DelItemCommit(s)
    \/ \E path \in ConcPaths, body \in ConcPatchBodies : UpdatePost(path, body)
    \/ \E s \in Slots : UpdateCommit(s)
    \/ \E s \in Slots : UpdateFetch(s)

ConcSpec == ConcInit /\ [][ConcNext]_vars

(***************************************************************************)
(* Startup: try_make_db() and then run_app(init_app()), whose init_db      *)
(* opens the connection.  The working directory, the directories holding   *)
(* .git and the store files found there are of every kind; the handlers    *)
(* are not run before the connection is open.                              *)
(***************************************************************************)
FileStates == {Absent, NoTable, Table(Empty), Table([i \in {SeedId} |-> BaseRow])}

\* the loop without its test for the root
GetDbPathStep_NoRootCheck(h) ==
    IF h \in git THEN [pc |-> "return", here |-> h]
    ELSE [pc |-> "while", here |-> Parent(h)]

\* one turn of the loop of get_db_path with here = h
GetDbPathStep(h) ==
    IF h \in git THEN [pc |-> "return", here |-> h]
    ELSE IF h = Parent(h) THEN [pc |-> "raise", here |-> h]
    ELSE [pc |-> "while", here |-> Parent(h)]

Searching == {"try_make_db", "init_db"}

StartInit ==
    /\ items = Empty
    /\ uncommitted = {}
    /\ reqs = [s \in 1..MaxSerial |-> Idle]
    /\ resp = NoResp
    /\ fresh = Empty
    /\ okCreated = EmptyBag
    /\ okDeleted = EmptyBag
    /\ initial = {}
    /\ written = {}
    /\ cwd \in Dirs
    /\ git \in SUBSET Dirs
    /\ files \in [Dirs -> FileStates]
    /\ here = NoDir
    /\ sqlite_db = NoDir
    /\ phase = "start"

\* try_make_db() is called: get_db_path starts from Path.cwd()
TryMakeDb ==
    /\ phase = "start"
    /\ here' = cwd
    /\ phase' = "try_make_db"
    /\ UNCHANGED <<service, cwd, git, files, sqlite_db>>

\* get_db_path, called by try_make_db or by init_db: one turn of its loop,
\* its return of here / "db.sqlite3", or its RuntimeError, which no caller
\* catches
GetDbPath ==
    /\ phase \in Searching
    /\ LET step == GetDbPathStep(here)
       IN  CASE step.pc = "return" ->
                    /\ sqlite_db' = step.here
                    /\ phase' = IF phase = "try_make_db" THEN "exists" ELSE "connect"
                    /\ here' = here
             [] step.pc = "raise" ->
                    /\ phase' = "aborted"
                    /\ UNCHANGED <<here, sqlite_db>>
             [] step.pc = "while" ->
                    /\ here' = step.here
                    /\ UNCHANGED <<phase, sqlite_db>>
    /\ UNCHANGED <<service, cwd, git, files>>

\* the rest of try_make_db: return when the file exists, else CREATE TABLE
MakeDb ==
    /\ phase = "exists"
    /\ files' = IF Exists(files[sqlite_db]) THEN files
                ELSE [files EXCEPT ![sqlite_db] = Table(Empty)]
    /\ phase' = "run_app"
    /\ UNCHANGED <<service, cwd, git, here, sqlite_db>>

\* init_db is entered: get_db_path starts from Path.cwd() again
InitDb ==
    /\ phase = "run_app"
    /\ here' = cwd
    /\ phase' = "init_db"
    /\ UNCHANGED <<service, cwd, git, files, sqlite_db>>

\* db = await aiosqlite.connect(sqlite_db); app["DB"] = db
Connect ==
    /\ phase = "connect"
    /\ items' = files[sqlite_db].rows
    /\ initial' = Ids(files[sqlite_db].rows)
    /\ phase' = "serving"
    /\ UNCHANGED <<uncommitted, reqs, resp, fresh, okCreated, okDeleted, written>>
    /\ UNCHANGED <<cwd, git, files, here, sqlite_db>>

StartNext ==
    \/ TryMakeDb
    \/ GetDbPath
    \/ MakeDb
    \/ InitDb
    \/ Connect

StartSpec == StartInit /\ [][StartNext]_vars

\* startup goes on while it has a step to take
FairStartSpec == StartSpec /\ WF_vars(StartNext)

(***************************************************************************)
(* Properties                                                              *)
(***************************************************************************)
\* every value of a POST body is of its column's declared type, or null
WellTyped(val) ==
    \A k \in PostKeys :
        val[k].typ \in (IF k \in TextColumns THEN {"text", "null"} ELSE {"int", "null"})

\* the step just taken answered GET /api/{i} with an ok envelope, i being an id
\* that a POST returned and that no UPDATE or DELETE has reached since
FetchedFresh(i) ==
    /\ resp.op = "GET"
    /\ resp.code = 200
    /\ resp.path = Str(i)
    /\ i \in DOMAIN fresh
    /\ fresh[i].returned

\* C1, as claimed: after a POST with all five fields that returned ok, GET of
\* the returned id, with no update or delete of the item in between, returns
\* the submitted owner, title, description, price and quantity, and the
\* submitted owner as editor.
C1_CreateThenFetch ==
    \A i \in DOMAIN fresh :
        FetchedFresh(i) => resp.data = PostValues(fresh[i].val)

\* C1, amended: the same when title, owner and description are strings or
\* null and price and quantity are integers or null.
C1_WellTypedCreateThenFetch ==
    \A i \in DOMAIN fresh :
        (FetchedFresh(i) /\ WellTyped(fresh[i].val))
            => resp.data = PostValues(fresh[i].val)

C1_Witness ==
    \E i \in DOMAIN fresh :
        /\ FetchedFresh(i)
        /\ WellTyped(fresh[i].val)
        /\ fresh[i].val["title"] = JNull

Quiescent ==
    \A s \in Slots : reqs[s] = Idle \/ reqs[s].op \notin {"POST", "DELETE"}

ListedIds == {r.id.val : r \in resp.data}

ListMatchesHistory ==
    /\ Cardinality(resp.data) = BagCardinality(okCreated) - BagCardinality(okDeleted)
    /\ ListedIds = BagToSet(okCreated (-) okDeleted)

HasItem(tbl, path) == \E i \in Ids(tbl) : Str(i) = path

IsOkEnvelope(r) == r.op # "none" /\ r.code = 200 /\ r.status = "ok"
IsFailed400(r) == r.op # "none" /\ r.code = 400 /\ r.status = "failed" /\ r.reason
IsFail404(r) == r.op # "none" /\ r.code = 404 /\ r.status = "fail" /\ r.reason

\* C3, as claimed: DELETE /api/{id} for the id of any stored item removes
\* exactly that row, leaves every other row as it was, and answers 200 with
\* {status: "ok", id}.
C3_DeleteExisting ==
    [][/\ \A i \in Ids(items) :
            DelItem(Str(i)) =>
                /\ items' = [j \in Ids(items) \ {i} |-> items[j]]
                /\ \E s \in Slots :
                        /\ reqs'[s] # Idle
                        /\ reqs'[s].op = "DELETE"
                        /\ reqs'[s].path = Str(i)
       /\ \A s \in Slots :
            DelItemCommit(s) =>
                /\ IsOkEnvelope(resp')
                /\ resp'.id = JText(reqs[s].path)
                /\ items' = items]_vars

\* C4, as claimed: DELETE /api/{id} for an id that names no stored item
\* answers 404 with a "fail" envelope and leaves the store as it was.
C4_DeleteMissing ==
    [][\A path \in Paths :
            (DelItem(path) /\ ~HasItem(items, path)) =>
                (IsFail404(resp') /\ items' = items)]_vars

\* the table after the item at path has exactly the keys of obj among title,
\* description and editor set to the values obj gives them
WithSupplied(tbl, path, obj) ==
    [j \in Ids(tbl) |->
        IF Str(j) = path
        THEN [c \in Columns |->
                IF c \in PatchKeys \cap DOMAIN obj THEN obj[c] ELSE tbl[j][c]]
        ELSE tbl[j]]

Supplies(body) == body.kind = "object" /\ PatchKeys \cap DOMAIN body.obj # {}

\* slot s takes a handler of this operation in the step
Suspends(s, op) == reqs[s] = Idle /\ reqs'[s] # Idle /\ reqs'[s].op = op

\* the step answers a request of this operation as soon as it arrives
AnswersAtOnce(op) == resp' # NoResp /\ resp'.op = op /\ reqs' = reqs

\* C5, as claimed: PATCH of a stored item with a non-empty subset of title,
\* description, editor sets exactly those fields to the supplied values and
\* changes no other field, no other item and no id.
C5_UpdateSupplied ==
    [][/\ \A s \in Slots :
            (Suspends(s, "PATCH") /\ HasItem(items, reqs'[s].path))
                => items' = WithSupplied(items, reqs'[s].path, reqs'[s].body.obj)
       /\ (AnswersAtOnce("PATCH") /\ Supplies(resp'.body) /\ HasItem(items, resp'.path))
                => items' = WithSupplied(items, resp'.path, resp'.body.obj)]_vars

StringsOrNull(body) ==
    \A k \in PatchKeys \cap DOMAIN body.obj : body.obj[k].typ \in {"text", "null"}

\* C5, amended: the same when every supplied value is a string or null.
C5_UpdateSuppliedStrings ==
    [][/\ \A s \in Slots :
            (Suspends(s, "PATCH") /\ StringsOrNull(reqs'[s].body)
                /\ HasItem(items, reqs'[s].path))
                => items' = WithSupplied(items, reqs'[s].path, reqs'[s].body.obj)
       /\ (AnswersAtOnce("PATCH") /\ Supplies(resp'.body) /\ StringsOrNull(resp'.body)
                /\ HasItem(items, resp'.path))
                => items' = WithSupplied(items, resp'.path, resp'.body.obj)]_vars

C5_Witness ==
    \E s \in Slots :
        /\ reqs[s] # Idle
        /\ reqs[s].op = "PATCH"
        /\ reqs[s].pc = "commit"
        /\ StringsOrNull(reqs[s].body)
        /\ PatchKeys \cap DOMAIN reqs[s].body.obj = {"description", "editor"}
        /\ Cardinality(Ids(items)) = 2
        /\ \E i \in Ids(items) :
                /\ Str(i) = reqs[s].path
                /\ items[i]["description"] = JText(<<"b">>)
                /\ items[i]["editor"] = JText(<<"b">>)
                /\ items[i]["title"] = JNull
                /\ \E j \in Ids(items) \ {i} : items[j]["editor"] = JText(<<"o">>)

\* C6: PATCH of a stored item with none of the keys title, description,
\* editor writes nothing (the table and the pending statements are as
\* before) and answers an ok envelope carrying the item's current row.
C6_UpdateNothing ==
    [][/\ (resp' # NoResp /\ resp'.op = "PATCH" /\ resp'.body.kind = "object"
            /\ ~Supplies(resp'.body) /\ HasItem(items, resp'.path))
            => /\ items' = items
               /\ uncommitted' = uncommitted
               /\ reqs' = reqs
               /\ IsOkEnvelope(resp')
               /\ resp'.id = JText(resp'.path)
               /\ resp'.data = items[ToInt(resp'.path)]
       /\ \A s \in Slots : Suspends(s, "PATCH") => Supplies(reqs'[s].body)]_vars

C6_Witness ==
    /\ IsOkEnvelope(resp)
    /\ resp.op = "PATCH"
    /\ ~Supplies(resp.body)
    /\ DOMAIN resp.body.obj = {"owner", "price", "quantity", "id"}
    /\ HasItem(items, resp.path)
    /\ resp.data = items[ToInt(resp.path)]

C8_MissingItem ==
    [][/\ (resp' # NoResp /\ resp'.op \in {"GET", "PATCH"} /\ ~HasItem(items, resp'.path))
            => (IsFailed400(resp') /\ items' = items)
       /\ \A s \in Slots :
            (Suspends(s, "PATCH") /\ ~HasItem(items, reqs'[s].path)) => items' = items]_vars

C8_Witness ==
    /\ IsFailed400(resp)
    /\ resp.op = "PATCH"
    /\ Supplies(resp.body)
    /\ \A k \in PatchKeys \cap DOMAIN resp.body.obj : Bindable(resp.body.obj[k])
    /\ ~HasItem(items, resp.path)
    /\ items # Empty

LacksField(body) == body.kind = "object" /\ ~(PostKeys \subseteq DOMAIN body.obj)

\* C9: POST /api with a body that lacks one of title, owner, description,
\* price, quantity answers a 400 failure envelope and adds no item: the
\* table is as it was.
C9_MissingField ==
    [][/\ (resp' # NoResp /\ resp'.op = "POST" /\ LacksField(resp'.body))
            => (IsFailed400(resp') /\ items' = items)
       /\ \A s \in Slots : Suspends(s, "POST") => ~LacksField(reqs'[s].body)]_vars

C9_Witness ==
    /\ IsFailed400(resp)
    /\ resp.op = "POST"
    /\ LacksField(resp.body)
    /\ PostKeys \ DOMAIN resp.body.obj = {"quantity"}
    /\ items # Empty

\* C10, as claimed: in every reachable state every stored item has non-null
\* owner, editor, title, description, price and quantity.
C10_NoNullField ==
    \A i \in Ids(items) : \A c \in Columns : items[i][c] # JNull

\* slot s, suspended in a handler of this operation, answers in the step
Answers(s, op) == reqs[s] # Idle /\ reqs[s].op = op /\ reqs'[s] = Idle

\* C11: no two stored items have the same id, a create is given an id that
\* no stored item has at its INSERT and returns that id, and no operation
\* changes the id of a stored item: an INSERT adds one id and leaves every
\* stored row under its id, only an INSERT adds an id, and no step both
\* removes an id and adds one.
C11_UniqueIds ==
    [][/\ \A s \in Slots :
            Suspends(s, "POST") =>
                /\ reqs'[s].item_id \notin Ids(items)
                /\ Ids(items') = Ids(items) \cup {reqs'[s].item_id}
                /\ \A i \in Ids(items) : items'[i] = items[i]
       /\ \A s \in Slots :
            Answers(s, "POST") =>
                /\ IsOkEnvelope(resp')
                /\ resp'.id = JInt(reqs[s].item_id)
                /\ Ids(items') = Ids(items)
       /\ (Ids(items') \ Ids(items) # {}) => \E s \in Slots : Suspends(s, "POST")
       /\ (Ids(items) \ Ids(items') # {}) => Ids(items') \subseteq Ids(items)]_vars

C11_Witness ==
    /\ IsOkEnvelope(resp)
    /\ resp.op = "POST"
    /\ resp.id = JInt(2)
    /\ Ids(items) = {1, 2}
    /\ okCreated = SetToBag({1, 2})

CreationColumns == {"owner", "price", "quantity"}

\* C12: from its creation until its deletion an item keeps the owner, price
\* and quantity it was created with: no step changes them in a row that
\* stays in the table, also when a PATCH payload carries owner, price,
\* quantity or id keys.
C12_CreationFieldsKept ==
    [][\A i \in Ids(items) \cap Ids(items') :
            \A c \in CreationColumns : items'[i][c] = items[i][c]]_vars

C12_Witness ==
    \E s \in Slots :
        /\ reqs[s] # Idle
        /\ reqs[s].op = "PATCH"
        /\ reqs[s].pc = "fetch"
        /\ {"owner", "price", "quantity", "id", "editor"} \subseteq DOMAIN reqs[s].body.obj
        /\ reqs[s].body.obj["owner"] = JText(<<"b">>)
        /\ \E i \in Ids(items) :
                /\ Str(i) = reqs[s].path
                /\ i \in BagToSet(okCreated)
                /\ items[i]["editor"] = JText(<<"b">>)
                /\ items[i]["owner"] = JText(<<"o">>)
                /\ items[i]["price"] = JInt(5)
                /\ items[i]["quantity"] = JInt(1)

\* C13, as claimed: once DELETE /api/{id} has returned ok for an id, every
\* later GET /api/{id} of that id answers a failure envelope, whatever
\* requests are served in between.
C13_DeletedStaysGone ==
    (resp.op = "GET" /\ ToInt(resp.path) \in BagToSet(okDeleted)) => IsFailed400(resp)

\* C14, as claimed: PATCH /api/{id} is atomic with respect to the requests
\* served beside it: in any interleaving with other PATCH, DELETE or POST
\* requests, its ok response carries the supplied value of every field the
\* request supplied, and its failure response means that the request wrote
\* nothing to the store.
C14_UpdateAtomic ==
    [][\A s \in Slots :
            Answers(s, "PATCH") =>
                /\ IsOkEnvelope(resp') =>
                        \A k \in PatchKeys \cap DOMAIN reqs[s].body.obj :
                            resp'.data[k] = reqs[s].body.obj[k]
                /\ IsFailed400(resp') => s \notin written]_vars

Writes == {"POST", "PATCH", "DELETE"}

\* C15: when POST /api, PATCH /api/{id} or DELETE /api/{id} answers an ok
\* envelope, the statement of that request has been committed on the shared
\* connection: no handler answers ok while its own INSERT, UPDATE or DELETE
\* is among the uncommitted statements, and a handler that answers as soon as
\* its request arrives has run no statement that writes.
C15_CommittedBeforeOk ==
    [][/\ \A s \in Slots :
            \A op \in Writes :
                (Answers(s, op) /\ IsOkEnvelope(resp')) => s \notin uncommitted'
       /\ \A op \in Writes :
            AnswersAtOnce(op) => (items' = items /\ uncommitted' = uncommitted)]_vars

C15_Witness ==
    /\ IsOkEnvelope(resp)
    /\ resp.op = "PATCH"
    /\ Supplies(resp.body)
    /\ resp.data["editor"] = resp.body.obj["editor"]
    /\ uncommitted # {}
    /\ \E s \in uncommitted : reqs[s] # Idle /\ reqs[s].op = "POST"

Reads == {"INDEX", "LIST", "GET"}

\* C16: GET /, GET /api and GET /api/{id} never modify the store: the step
\* that answers one of them, with an ok or a failure envelope, leaves the set
\* of items, every field value and the uncommitted statements as they were.
C16_ReadsChangeNothing ==
    [][(resp' # NoResp /\ resp'.op \in Reads) =>
            (items' = items /\ uncommitted' = uncommitted /\ reqs' = reqs)]_vars

C16_Witness ==
    /\ resp.op = "GET"
    /\ IsOkEnvelope(resp)
    /\ resp.path = Str(TwoDigitId)
    /\ Ids(items) = {SeedId, TwoDigitId}
    /\ resp.data = items[TwoDigitId]

\* try_make_db has returned
MadeDb == phase \in {"run_app", "init_db", "connect", "serving"}

\* C17, as claimed: after try_make_db has run, the items table exists in the
\* store file, whatever the state of the file before startup, and a table
\* that already existed keeps its rows.
C17_TableAfterStartup ==
    /\ [](MadeDb => files[sqlite_db].kind = "table")
    /\ [][\A d \in Dirs : files[d].kind = "table" => files'[d] = files[d]]_vars

\* the working directory and its ancestors that contain .git
GitAbove == {d \in git : d <= cwd}

\* d is the nearest of them
Nearest(d) == d \in GitAbove /\ \A e \in GitAbove : e <= d

\* C18: get_db_path terminates for every working directory; it returns
\* db.sqlite3 in the nearest directory, among the working directory and its
\* ancestors, that contains .git, and raises RuntimeError when none of them
\* does; startup then aborts before the schema is created and before any
\* request is served: no file has changed, no connection is open, and
\* nothing runs afterwards.
C18_GetDbPath ==
    /\ (phase \in Searching) ~> (phase \notin Searching)
    /\ (phase = "start" /\ GitAbove = {}) ~> (phase = "aborted")
    /\ [](phase \in {"exists", "connect"} => Nearest(sqlite_db))
    /\ [](phase = "aborted" => (GitAbove = {} /\ sqlite_db = NoDir /\ resp = NoResp))
    /\ [][/\ phase # "aborted"
          /\ phase' = "aborted" => phase = "try_make_db"
          /\ files' # files => phase = "exists"]_vars

C18_Witness ==
    /\ phase = "exists"
    /\ cwd = MaxDepth
    /\ git = {Root, MaxDepth - 1}
    /\ here = MaxDepth - 1
    /\ sqlite_db = MaxDepth - 1

====
